---- MODULE Spec2Model ----
(***************************************************************************)
(* Model of the Loom container-side trace library                          *)
(* (pkg/docker/runtime/python/loom_trace.py): the context loaded from the  *)
(* environment by LoomTracer.__init__, start_span / end_span / flush, the  *)
(* export to stderr, and the trace_span / trace_function scoped helpers.   *)
(*                                                                         *)
(* Text that the code inspects character by character (the baggage string, *)
(* baggage keys and values, tenant and org ids, string attribute values)   *)
(* is a sequence of one-character strings.  Identifiers the code only      *)
(* copies and compares (trace id, span ids, names, status) are strings.    *)
(***************************************************************************)
EXTENDS Integers, Sequences, FiniteSets, TLC

(***************************************************************************)
(* Bounds of the model.                                                    *)
(***************************************************************************)
MaxBaggageLen == 7
MaxSpans == 2
MaxEnds == 2
MaxRounds == 1

(***************************************************************************)
(* Text.                                                                   *)
(***************************************************************************)
\* the characters str.strip() removes that the model's alphabet holds
Whitespace == {" "}

\* the alphabet of the enumerated baggage strings
BaggageAlphabet == {",", "=", " ", "a", "b"}

\* str.lstrip(): drop leading whitespace, one character at a time
RECURSIVE LStrip(_)
LStrip(s) ==
    IF s = <<>> THEN <<>>
    ELSE IF Head(s) \in Whitespace THEN LStrip(Tail(s))
    ELSE s

\* str.rstrip(): drop trailing whitespace, one character at a time
RECURSIVE RStrip(_)
RStrip(s) ==
    IF s = <<>> THEN <<>>
    ELSE IF s[Len(s)] \in Whitespace THEN RStrip(SubSeq(s, 1, Len(s) - 1))
    ELSE s

\* str.strip()
Strip(s) == RStrip(LStrip(s))

\* s.find(c) + 1: the index of the first c in s, 0 when there is none
RECURSIVE FindFrom(_, _, _)
FindFrom(s, c, i) ==
    IF i > Len(s) THEN 0
    ELSE IF s[i] = c THEN i
    ELSE FindFrom(s, c, i + 1)

Find(s, c) == FindFrom(s, c, 1)

\* s.rfind(c) + 1: the index of the last c in s, 0 when there is none
RECURSIVE RFindFrom(_, _, _)
RFindFrom(s, c, i) ==
    IF i < 1 THEN 0
    ELSE IF s[i] = c THEN i
    ELSE RFindFrom(s, c, i - 1)

\* str.split(sep) for a one-character sep: "" gives [""], "a,,b" gives
\* ["a", "", "b"]
RECURSIVE Split(_, _)
Split(s, sep) ==
    LET i == Find(s, sep) IN
    IF i = 0 THEN <<s>>
    ELSE <<SubSeq(s, 1, i - 1)>> \o Split(SubSeq(s, i + 1, Len(s)), sep)

\* the position at which pair.split("=", 1) cuts a pair that holds a "="
SplitAtLast(pair) == RFindFrom(pair, "=", Len(pair))

SplitAt(pair) == Find(pair, "=")

\* dict.get(key, default)
DictGet(d, key, default) == IF key \in DOMAIN d THEN d[key] ELSE default

\* d[key] = val
DictSet(d, key, val) == [k \in DOMAIN d \cup {key} |-> IF k = key THEN val ELSE d[k]]

EmptyDict == [k \in {} |-> <<>>]

(***************************************************************************)
(* LoomTracer._parse_baggage: the loop over baggage_str.split(","), with   *)
(* result the dictionary built so far.                                     *)
(***************************************************************************)
RECURSIVE ParseLoop(_, _, _)
ParseLoop(pairs, i, result) ==
    IF i > Len(pairs) THEN result
    ELSE
        LET pair == Strip(pairs[i]) IN
        IF Find(pair, "=") # 0
        THEN
            LET cut == SplitAt(pair)
                key == Strip(SubSeq(pair, 1, cut - 1))
                val == Strip(SubSeq(pair, cut + 1, Len(pair)))
            IN  IF key # <<>> /\ val # <<>>
                THEN ParseLoop(pairs, i + 1, DictSet(result, key, val))
                ELSE ParseLoop(pairs, i + 1, result)
        ELSE ParseLoop(pairs, i + 1, result)

_parse_baggage(baggage_str) ==
    IF baggage_str = <<>> THEN EmptyDict
    ELSE ParseLoop(Split(baggage_str, ","), 1, EmptyDict)


(***************************************************************************)
(* Values.                                                                 *)
(***************************************************************************)
\* an attribute value: a string, or an object json.dumps cannot serialize
StrVal(s) == [kind |-> "str", s |-> s]
ObjVal == [kind |-> "obj", s |-> <<>>]

\* str(uuid.uuid4()): the n-th identifier drawn, never empty, never equal
\* to an identifier of the environment
Uuid(n) == "uuid-" \o ToString(n)

\* None, for Span.end_time and trace_span.span
None == 0

\* the exception classes the model tells apart: the application's error,
\* json.dumps's TypeError ("TypeError"), the exception of a failed write to
\* the stream ("StreamError")
AppError == "E"
NoError == "none"

Names == {"work"}
\* the status arguments of the application's own end_span calls
Statuses == {"ok", "bogus"}
BlockOutcomes == {"normal", "return", "raise"}
\* sys.stderr: it takes writes; or it is closed and write() raises; or it
\* takes writes and flush() raises
StreamStates == {"up", "closed", "unflushable"}

\* the attribute mappings a caller builds
CallerAttrs ==
    { [k \in {"tenant_id", "org_id"} |-> StrVal(<<"\"", "\\", "v">>)],
      [k \in {"payload"} |-> ObjVal] }

(***************************************************************************)
(* The environment: each variable is unset, or set to a value.             *)
(***************************************************************************)
Unset(v) == [set |-> FALSE, val |-> v]
SetTo(v) == [set |-> TRUE, val |-> v]

\* os.environ.get(key, default)
EnvGet(var, default) == IF var.set THEN var.val ELSE default

TenantKey == <<"t", "e", "n", "a", "n", "t", "_", "i", "d">>
OrgKey == <<"o", "r", "g", "_", "i", "d">>
Acme == <<"a", "c", "m", "e">>
Co == <<"c", "o">>

Envs ==
    { [trace |-> Unset(""), span |-> Unset(""), baggage |-> Unset(<<>>)],
      [trace |-> SetTo("t1"), span |-> SetTo("p1"),
       baggage |-> SetTo(TenantKey \o <<"=">> \o Acme \o <<",">> \o OrgKey \o <<"=">> \o Co)],
      [trace |-> SetTo(""), span |-> SetTo(""),
       baggage |-> SetTo(TenantKey \o <<"=">> \o Acme)] }

(***************************************************************************)
(* State.                                                                  *)
(***************************************************************************)
VARIABLES
    env,            \* LOOM_TRACE_ID, LOOM_SPAN_ID, LOOM_TRACE_BAGGAGE
    constructed,    \* the module-level tracer = LoomTracer() has run
    trace_id, parent_span_id, baggage, tenant_id, org_id,
    spans,          \* LoomTracer.spans: references into spanHeap
    spanHeap,       \* the Span objects, by reference
    dictHeap,       \* the attribute dictionaries, by reference
    tsHeap,         \* the trace_span objects, by reference
    stderr,         \* sys.stderr: the chunks written, in order
    clock,          \* the last reading of datetime.utcnow(); each reading is later
    uuids,          \* the number of uuid4() calls made
    stream,         \* the condition of sys.stderr, one of StreamStates
    stack,          \* the with-blocks of trace_span that are open
    pending,        \* the exception in flight, NoError when none
    calls,          \* how often start_span and end_span have been called
    last,           \* the last call on the tracer and how it ended
    lastScope,      \* the last with-block of trace_span that was left
    threads         \* the threads of the application that use the library

tracerVars == <<trace_id, parent_span_id, baggage, tenant_id, org_id>>
vars == <<env, constructed, trace_id, parent_span_id, baggage, tenant_id, org_id,
          spans, spanHeap, dictHeap, tsHeap, stderr, clock, uuids, stream,
          stack, pending, calls, last, lastScope, threads>>

NoCall ==
    [op |-> "none", span |-> None, status |-> "", raised |-> NoError,
     unencodable |-> FALSE, stream |-> "up", mark |-> 0,
     given |-> <<>>, dref |-> None]

\* no thread but the main one
NoThreads ==
    [shared |-> FALSE, pc |-> <<"none", "none">>, span |-> <<None, None>>,
     rounds |-> <<0, 0>>, log |-> << <<>>, <<>> >>, overlap |-> FALSE]

NoScope ==
    [ts |-> None, raised |-> NoError,
     observed |-> NoError, started |-> None, ended |-> None, status |-> "",
     startCalls |-> 0, endCalls |-> 0, mark |-> 0]

(***************************************************************************)
(* LoomTracer.__init__                                                     *)
(***************************************************************************)
\* the default, str(uuid.uuid4()), is evaluated before the lookup
InitTraceId(e, fresh) == EnvGet(e.trace, fresh)

InitParentSpanId(e) == EnvGet(e.span, "")

InitBaggage(e) == _parse_baggage(EnvGet(e.baggage, <<>>))

StartState(e, st) ==
    /\ env = e
    /\ constructed = FALSE
    /\ trace_id = ""
    /\ parent_span_id = ""
    /\ baggage = EmptyDict
    /\ tenant_id = <<>>
    /\ org_id = <<>>
    /\ spans = <<>>
    /\ spanHeap = <<>>
    /\ dictHeap = <<>>
    /\ tsHeap = <<>>
    /\ stderr = <<>>
    /\ clock = 0
    /\ uuids = 0
    /\ stream = st
    /\ stack = <<>>
    /\ pending = NoError
    /\ calls = [start |-> 0, end |-> 0]
    /\ last = NoCall
    /\ lastScope = NoScope

\* the conditions of the stream each environment is run with: all three
\* for the environment that sets everything, a stream that takes writes
\* for the others, and a closed one where nothing is set
StreamsFor(e) ==
    IF e.span.set /\ e.span.val # "" THEN StreamStates
    ELSE IF ~e.trace.set THEN {"up", "closed"}
    ELSE {"up"}

\* the process starts with one of the environments and with its error
\* stream in one condition, which lasts; loom_trace is imported next
Init == \E e \in Envs : \E st \in StreamsFor(e) : StartState(e, st) /\ threads = NoThreads

Construct ==
    /\ ~constructed
    /\ constructed' = TRUE
    /\ uuids' = uuids + 1
    /\ trace_id' = InitTraceId(env, Uuid(uuids + 1))
    /\ parent_span_id' = InitParentSpanId(env)
    /\ baggage' = InitBaggage(env)
    /\ tenant_id' = DictGet(baggage', TenantKey, <<>>)
    /\ org_id' = DictGet(baggage', OrgKey, <<>>)
    /\ spans' = <<>>
    /\ UNCHANGED <<threads, env, spanHeap, dictHeap, tsHeap, stderr, clock, stream,
                   stack, pending, calls, last, lastScope>>


(***************************************************************************)
(* LoomTracer.start_span                                                   *)
(***************************************************************************)
\* the caller's value is kept when the caller gave the key
InjectTenantCallerWins(attrs) ==
    LET a1 == IF tenant_id # <<>> /\ "tenant_id" \notin DOMAIN attrs
              THEN DictSet(attrs, "tenant_id", StrVal(tenant_id)) ELSE attrs
    IN  IF org_id # <<>> /\ "org_id" \notin DOMAIN a1
        THEN DictSet(a1, "org_id", StrVal(org_id)) ELSE a1

\* attributes["tenant_id"] = self.tenant_id; attributes["org_id"] = self.org_id
InjectTenant(attrs) ==
    LET a1 == IF tenant_id # <<>>
              THEN DictSet(attrs, "tenant_id", StrVal(tenant_id)) ELSE attrs
    IN  IF org_id # <<>>
        THEN DictSet(a1, "org_id", StrVal(org_id)) ELSE a1

\* the parent is the span of the innermost open with-block
ParentIdOfEnclosing ==
    IF stack # <<>> THEN spanHeap[stack[Len(stack)].started].span_id
    ELSE IF parent_span_id # "" THEN parent_span_id ELSE trace_id

\* self.parent_span_id or self.trace_id
ParentId == IF parent_span_id # "" THEN parent_span_id ELSE trace_id

\* the start time is not read from the clock
NewSpanNoClock(name, dref) ==
    [trace_id |-> trace_id,
     span_id |-> Uuid(uuids + 1),
     parent_id |-> ParentId,
     name |-> name,
     start_time |-> 0,
     end_time |-> None,
     attributes |-> dref,
     status |-> "unset"]

\* Span(...) of start_span; attributes is the reference it was given
NewSpan(name, dref) ==
    [trace_id |-> trace_id,
     span_id |-> Uuid(uuids + 1),
     parent_id |-> ParentId,
     name |-> name,
     start_time |-> clock + 1,
     end_time |-> None,
     attributes |-> dref,
     status |-> "unset"]

\* the span is put before the others
PrependToLog(log, sref) == <<sref>> \o log

\* self.spans.append(span)
AppendToLog(log, sref) == Append(log, sref)

\* start_span(name, attributes) with attributes the dictionary heap[dref];
\* given is <<the mapping as the caller passed it>>, <<>> for None
DoStart(name, heap, dref, given) ==
    /\ dictHeap' = [heap EXCEPT ![dref] = InjectTenant(@)]
    /\ spanHeap' = Append(spanHeap, NewSpan(name, dref))
    /\ spans' = AppendToLog(spans, Len(spanHeap) + 1)
    /\ uuids' = uuids + 1
    /\ clock' = clock + 1
    /\ calls' = [calls EXCEPT !.start = @ + 1]
    /\ last' = [NoCall EXCEPT !.op = "start", !.span = Len(spanHeap) + 1,
                              !.given = given, !.dref = dref, !.mark = Len(stderr)]

\* an exception that leaves a call made inside a with-block is in flight in
\* that block; outside every with-block it has reached the application
InFlight(exc, blocks) == IF blocks = <<>> THEN NoError ELSE exc

\* every open with-block can still be left within the bound on end_span calls
EndsLeft == MaxEnds - calls.end - Len(stack)

Idle == constructed /\ pending = NoError

\* tracer.start_span(name): attributes is None, a fresh {} is made
StartSpanNone(name) ==
    /\ Idle
    /\ Len(spanHeap) < MaxSpans
    /\ DoStart(name, Append(dictHeap, EmptyDict), Len(dictHeap) + 1, <<>>)
    /\ UNCHANGED <<threads, env, constructed, tracerVars, tsHeap, stderr, stream, stack,
                   pending, lastScope>>

\* tracer.start_span(name, {...}): a mapping the caller builds for the call
StartSpanNew(name, c) ==
    /\ Idle
    /\ Len(spanHeap) < MaxSpans
    /\ DoStart(name, Append(dictHeap, c), Len(dictHeap) + 1, <<c>>)
    /\ UNCHANGED <<threads, env, constructed, tracerVars, tsHeap, stderr, stream, stack,
                   pending, lastScope>>

\* tracer.start_span(name, d): a mapping that exists already
StartSpanShared(name, dref) ==
    /\ Idle
    /\ Len(spanHeap) < MaxSpans
    /\ dref \in DOMAIN dictHeap
    /\ DoStart(name, dictHeap, dref, <<dictHeap[dref]>>)
    /\ UNCHANGED <<threads, env, constructed, tracerVars, tsHeap, stderr, stream, stack,
                   pending, lastScope>>

(***************************************************************************)
(* Span.to_json and the export of end_span                                 *)
(***************************************************************************)
Chunk(kind, span_id, json, msg) ==
    [kind |-> kind, span_id |-> span_id, json |-> json, msg |-> msg]

Newline == Chunk("nl", "", <<>>, "")

\* json.dumps raises TypeError on a value it cannot serialize
Encodable(sp) == \A k \in DOMAIN dictHeap[sp.attributes] : dictHeap[sp.attributes][k].kind = "str"

RECURSIVE JsonEscapeQuotesOnly(_), JsonEscape(_)
\* the backslash is left as it is
JsonEscapeQuotesOnly(s) ==
    IF s = <<>> THEN <<>>
    ELSE (IF Head(s) = "\"" THEN <<"\\", "\"">> ELSE <<Head(s)>>) \o JsonEscapeQuotesOnly(Tail(s))

\* json.dumps of a str: a quote and a backslash get a backslash before them
JsonEscape(s) ==
    IF s = <<>> THEN <<>>
    ELSE (IF Head(s) \in {"\"", "\\"} THEN <<"\\", Head(s)>> ELSE <<Head(s)>>) \o JsonEscape(Tail(s))

\* the text between the quotes of a JSON string
JsonValue(v) == [j |-> "string", s |-> JsonEscape(v.s)]

\* json.dumps(asdict(self)): the fields of the span, attributes by value
to_json(sp) ==
    [trace_id |-> sp.trace_id,
     span_id |-> sp.span_id,
     parent_id |-> sp.parent_id,
     name |-> sp.name,
     start_time |-> sp.start_time,
     end_time |-> sp.end_time,
     attributes |-> [k \in DOMAIN dictHeap[sp.attributes] |-> JsonValue(dictHeap[sp.attributes][k])],
     status |-> sp.status]

\* "__LOOM_TRACE__:" + span.to_json()
TraceText(sp) == Chunk("trace", sp.span_id, <<to_json(sp)>>, "")

\* "__LOOM_TRACE_ERROR__: Failed to export span: " + str(e)
DiagText(exc) == Chunk("diag", "", <<>>, exc)

\* print(text, file=sys.stderr, flush=flush): write(text), write("\n"),
\* then flush() when asked
PrintTo(text, flush) ==
    IF stream = "closed" THEN [chunks |-> <<>>, exc |-> "StreamError"]
    ELSE IF stream = "unflushable" /\ flush
    THEN [chunks |-> <<text, Newline>>, exc |-> "StreamError"]
    ELSE [chunks |-> <<text, Newline>>, exc |-> NoError]

\* the marker is written before the span is encoded
TryExportMarkerFirst(sp) ==
    IF ~Encodable(sp)
    THEN [chunks |-> <<Chunk("trace", sp.span_id, <<>>, "")>>, exc |-> "TypeError"]
    ELSE PrintTo(TraceText(sp), TRUE)

\* the try block of end_span
TryExport(sp) ==
    IF ~Encodable(sp) THEN [chunks |-> <<>>, exc |-> "TypeError"]
    ELSE PrintTo(TraceText(sp), TRUE)

\* the line is kept back for a later flush and nothing is written
ExportLater(sp) == [chunks |-> <<>>, exc |-> NoError]

\* try ... except Exception of end_span: what is written, what is raised
Export(sp) ==
    LET try == TryExport(sp) IN
    IF try.exc = NoError THEN try
    ELSE LET handler == PrintTo(DiagText(try.exc), FALSE)
         IN  [chunks |-> try.chunks \o handler.chunks, exc |-> handler.exc]

(***************************************************************************)
(* LoomTracer.end_span and flush                                           *)
(***************************************************************************)
\* end_time is left as start_span set it
FinalizedStatusOnly(sp, status) == [sp EXCEPT !.status = status]

\* the span is finalised only when it can be encoded
FinalizedIfEncodable(sp, status) ==
    IF Encodable(sp) THEN [sp EXCEPT !.end_time = clock + 1, !.status = status] ELSE sp

Finalized(sp, status) == [sp EXCEPT !.end_time = clock + 1, !.status = status]

DoEnd(sref, status) ==
    LET sp == Finalized(spanHeap[sref], status)
        out == Export(sp)
    IN  /\ spanHeap' = [spanHeap EXCEPT ![sref] = sp]
        /\ clock' = clock + 1
        /\ stderr' = stderr \o out.chunks
        /\ calls' = [calls EXCEPT !.end = @ + 1]
        /\ last' = [NoCall EXCEPT !.op = "end", !.span = sref, !.status = status,
                                  !.raised = out.exc, !.unencodable = ~Encodable(sp),
                                  !.stream = stream, !.mark = Len(stderr)]

\* tracer.end_span(span, status), called by the application
EndSpan(sref, status) ==
    /\ Idle
    /\ EndsLeft > 0
    /\ sref \in DOMAIN spanHeap
    /\ DoEnd(sref, status)
    /\ pending' = InFlight(last'.raised, stack)
    /\ UNCHANGED <<threads, env, constructed, tracerVars, spans, dictHeap, tsHeap, uuids,
                   stream, stack, lastScope>>

\* the span log is emptied
FlushClearsLog ==
    /\ Idle
    /\ spans' = <<>>
    /\ UNCHANGED <<threads, env, constructed, tracerVars, spanHeap, dictHeap, tsHeap, stderr,
                   clock, uuids, stream, stack, pending, calls, last, lastScope>>

\* pass
Flush ==
    /\ Idle
    /\ UNCHANGED vars


(***************************************************************************)
(* trace_span and trace_function                                           *)
(***************************************************************************)
\* the status is ok whatever happened in the block
ExitStatusAlwaysOk(exc) == "ok"

\* status = "error" if exc_type else "ok"
ExitStatus(exc) == IF exc # NoError THEN "error" ELSE "ok"

\* __exit__ returns False: the exception exc of the block goes on to the
\* caller, unless end_span raised, and then that exception does
Leaving(raisedByEnd, exc) == IF raisedByEnd # NoError THEN raisedByEnd ELSE exc

\* trace_span.__init__(name, **attributes): the keyword arguments are a
\* new dict, kept by reference
NewTraceSpan(name, dref) == [name |-> name, attributes |-> dref, span |-> None]

\* trace_span.__enter__ on the object tsh[t], the dictionaries being heap
DoEnter(tsh, heap, t) ==
    /\ DoStart(tsh[t].name, heap, tsh[t].attributes, <<heap[tsh[t].attributes]>>)
    /\ tsHeap' = [tsh EXCEPT ![t].span = Len(spanHeap) + 1]
    /\ stack' = Append(stack, [ts |-> t, started |-> Len(spanHeap) + 1,
                               startCalls |-> calls'.start - calls.start])

CanEnter ==
    /\ Idle
    /\ Len(spanHeap) < MaxSpans
    /\ EndsLeft > 0

\* with trace_span(name, **attributes): a new trace_span object is entered
With(name, c) ==
    /\ CanEnter
    /\ DoEnter(Append(tsHeap, NewTraceSpan(name, Len(dictHeap) + 1)),
               Append(dictHeap, c), Len(tsHeap) + 1)
    /\ UNCHANGED <<threads, env, constructed, tracerVars, stderr, stream, pending, lastScope>>

\* with ts: a trace_span object that was entered before is entered again
Enter(t) ==
    /\ CanEnter
    /\ t \in DOMAIN tsHeap
    /\ DoEnter(tsHeap, dictHeap, t)
    /\ UNCHANGED <<threads, env, constructed, tracerVars, stderr, stream, pending, lastScope>>

\* a function decorated with trace_function(name, **attributes) is called:
\* wrapper makes a trace_span from a copy of attributes and enters it
CallTraced(name, c) ==
    /\ CanEnter
    /\ DoEnter(Append(tsHeap, NewTraceSpan(name, Len(dictHeap) + 1)),
               Append(dictHeap, c), Len(tsHeap) + 1)
    /\ UNCHANGED <<threads, env, constructed, tracerVars, stderr, stream, pending, lastScope>>

\* the innermost with-block is left: normally, by a return, or by the
\* exception exc; trace_span.__exit__ runs and the block is popped
DoExit(exc) ==
    LET top == stack[Len(stack)]
        self == tsHeap[top.ts]
        status == ExitStatus(exc)
    IN  /\ DoEnd(self.span, status)
        /\ stack' = SubSeq(stack, 1, Len(stack) - 1)
        \* return False: exc goes on; an exception of end_span replaces it
        /\ pending' = InFlight(Leaving(last'.raised, exc), stack')
        /\ lastScope' = [ts |-> top.ts,
                         raised |-> exc, observed |-> Leaving(last'.raised, exc),
                         started |-> top.started, ended |-> self.span,
                         status |-> status, startCalls |-> top.startCalls,
                         endCalls |-> calls'.end - calls.end,
                         mark |-> Len(stderr)]
        /\ UNCHANGED <<threads, env, constructed, tracerVars, spans, dictHeap, tsHeap, uuids, stream>>

\* the code of the block completes, returns or raises an application error
ExitBlock(outcome) ==
    /\ constructed
    /\ pending = NoError
    /\ stack # <<>>
    /\ DoExit(IF outcome = "raise" THEN AppError ELSE NoError)

\* an exception in flight leaves the innermost with-block
Unwind ==
    /\ constructed
    /\ pending # NoError
    /\ stack # <<>>
    /\ DoExit(pending)

\* the application catches the exception in flight (try ... except)
Catch ==
    /\ pending # NoError
    /\ pending' = NoError
    /\ UNCHANGED <<threads, env, constructed, tracerVars, spans, spanHeap, dictHeap, tsHeap,
                   stderr, clock, uuids, stream, stack, calls, last, lastScope>>

(***************************************************************************)
(* The specification.                                                      *)
(***************************************************************************)
Next ==
    \/ Construct
    \/ \E name \in Names : StartSpanNone(name)
    \/ \E name \in Names, c \in CallerAttrs : StartSpanNew(name, c)
    \/ \E name \in Names, dref \in DOMAIN dictHeap : StartSpanShared(name, dref)
    \/ \E sref \in DOMAIN spanHeap, status \in Statuses : EndSpan(sref, status)
    \/ Flush
    \/ \E name \in Names, c \in CallerAttrs : With(name, c)
    \/ \E t \in DOMAIN tsHeap : Enter(t)
    \/ \E name \in Names, c \in CallerAttrs : CallTraced(name, c)
    \/ \E outcome \in BlockOutcomes : ExitBlock(outcome)
    \/ Unwind
    \/ Catch

Spec == Init /\ [][Next]_vars


(***************************************************************************)
(* The context loader alone: one of the enumerated baggage strings is in   *)
(* the environment and the tracer is constructed from it.                  *)
(***************************************************************************)
\* every string over BaggageAlphabet of at most MaxBaggageLen characters
BoundedBaggage == UNION { [1..n -> BaggageAlphabet] : n \in 0..MaxBaggageLen }

\* "a=1,bad,,c=3" and "tenant_id=acme,org_id=co"
BaggageExamples ==
    { <<"a", "=", "1", ",", "b", "a", "d", ",", ",", "c", "=", "3">>,
      TenantKey \o <<"=">> \o Acme \o <<",">> \o OrgKey \o <<"=">> \o Co }

InitBaggageOnly ==
    \E b \in BoundedBaggage \cup BaggageExamples :
        /\ StartState([trace |-> Unset(""), span |-> Unset(""), baggage |-> SetTo(b)], "up")
        /\ threads = NoThreads

SpecBaggage == InitBaggageOnly /\ [][Construct]_vars

(***************************************************************************)
(* Two threads of the application, each starting a span and ending it      *)
(* MaxRounds times. They share the module-level tracer, or each has a      *)
(* LoomTracer of its own made from the same environment (which sets the    *)
(* trace id, so the contexts are equal); sys.stderr is the one stream of   *)
(* the process. A thread switch can fall between the making of the Span    *)
(* and its append to the log, between the assignments of end_span and its  *)
(* print, and between the two writes of print.                             *)
(***************************************************************************)
Threads == {1, 2}

OtherThread(t) == 3 - t

\* the thread is inside a start_span or end_span call
MidCall(t) == threads.pc[t] \in {"made", "stamped", "text"}

\* thread t goes on to the next place; a step taken while the other thread
\* is inside a call makes the two calls overlap
Moved(t, to) == [threads EXCEPT !.pc[t] = to, !.overlap = @ \/ MidCall(OtherThread(t))]

\* start_span(name) up to the Span(...) call: a fresh {} with the tenant
\* context, a uuid, a reading of the clock
ThreadMakeSpan(t, name) ==
    /\ constructed
    /\ threads.pc[t] = "idle"
    /\ dictHeap' = Append(dictHeap, InjectTenant(EmptyDict))
    /\ spanHeap' = Append(spanHeap, NewSpan(name, Len(dictHeap) + 1))
    /\ uuids' = uuids + 1
    /\ clock' = clock + 1
    /\ threads' = [Moved(t, "made") EXCEPT !.span[t] = Len(spanHeap) + 1]
    /\ UNCHANGED <<env, constructed, tracerVars, spans, tsHeap, stderr, stream,
                   stack, pending, calls, last, lastScope>>

\* self.spans.append(span); return span
ThreadAppendSpan(t) ==
    /\ threads.pc[t] = "made"
    /\ IF threads.shared
       THEN /\ spans' = AppendToLog(spans, threads.span[t])
            /\ threads' = Moved(t, "open")
       ELSE /\ spans' = spans
            /\ threads' = [Moved(t, "open") EXCEPT
                              !.log[t] = AppendToLog(@, threads.span[t])]
    /\ UNCHANGED <<env, constructed, tracerVars, spanHeap, dictHeap, tsHeap, stderr,
                   clock, uuids, stream, stack, pending, calls, last, lastScope>>

\* end_span(span, status): span.end_time = ...; span.status = status
ThreadStampSpan(t, status) ==
    /\ threads.pc[t] = "open"
    /\ spanHeap' = [spanHeap EXCEPT ![threads.span[t]] = Finalized(@, status)]
    /\ clock' = clock + 1
    /\ threads' = Moved(t, "stamped")
    /\ UNCHANGED <<env, constructed, tracerVars, spans, dictHeap, tsHeap, stderr,
                   uuids, stream, stack, pending, calls, last, lastScope>>

\* print: span.to_json() and the write of the text
ThreadWriteText(t) ==
    /\ threads.pc[t] = "stamped"
    /\ stderr' = Append(stderr, PrintTo(TraceText(spanHeap[threads.span[t]]), TRUE).chunks[1])
    /\ threads' = Moved(t, "text")
    /\ UNCHANGED <<env, constructed, tracerVars, spans, spanHeap, dictHeap, tsHeap,
                   clock, uuids, stream, stack, pending, calls, last, lastScope>>

\* print: the write of "\n" and the flush; end_span returns
ThreadWriteNewline(t) ==
    /\ threads.pc[t] = "text"
    /\ stderr' = Append(stderr, PrintTo(TraceText(spanHeap[threads.span[t]]), TRUE).chunks[2])
    /\ threads' = [Moved(t, IF threads.rounds[t] + 1 < MaxRounds THEN "idle" ELSE "done")
                      EXCEPT !.rounds[t] = @ + 1]
    /\ UNCHANGED <<env, constructed, tracerVars, spans, spanHeap, dictHeap, tsHeap,
                   clock, uuids, stream, stack, pending, calls, last, lastScope>>

InitThreads ==
    \E shared \in BOOLEAN :
        /\ StartState([trace |-> SetTo("t1"), span |-> SetTo("p1"),
                       baggage |-> SetTo(TenantKey \o <<"=">> \o Acme)], "up")
        /\ threads = [NoThreads EXCEPT !.shared = shared, !.pc = <<"idle", "idle">>]

NextThreads ==
    \/ Construct
    \/ \E t \in Threads, name \in Names : ThreadMakeSpan(t, name)
    \/ \E t \in Threads : ThreadAppendSpan(t)
    \/ \E t \in Threads, status \in Statuses : ThreadStampSpan(t, status)
    \/ \E t \in Threads : ThreadWriteText(t)
    \/ \E t \in Threads : ThreadWriteNewline(t)

SpecThreads == InitThreads /\ [][NextThreads]_vars

(***************************************************************************)
(* The rule for baggage as the design states it, segment by segment.       *)
(***************************************************************************)
Least(S) == CHOOSE x \in S : \A y \in S : x <= y
Greatest(S) == CHOOSE x \in S : \A y \in S : y <= x

\* the text without the whitespace at its two ends
Trimmed(t) ==
    LET keep == {k \in DOMAIN t : t[k] \notin Whitespace}
    IN  IF keep = {} THEN <<>> ELSE SubSeq(t, Least(keep), Greatest(keep))

\* where the segments of s between commas start
SegmentStarts(s) == {1} \cup {i + 1 : i \in {k \in DOMAIN s : s[k] = ","}}

\* the segment of s that starts at i, trimmed
SegmentAt(s, i) ==
    Trimmed(SubSeq(s, i, Least({k \in i..Len(s) : s[k] = ","} \cup {Len(s) + 1}) - 1))

EqualsIn(t) == {k \in DOMAIN t : t[k] = "="}
RuleKey(t) == Trimmed(SubSeq(t, 1, Least(EqualsIn(t)) - 1))
RuleValue(t) == Trimmed(SubSeq(t, Least(EqualsIn(t)) + 1, Len(t)))

\* the starts of the segments that give a pair
PairStarts(s) ==
    {i \in SegmentStarts(s) :
        /\ EqualsIn(SegmentAt(s, i)) # {}
        /\ RuleKey(SegmentAt(s, i)) # <<>>
        /\ RuleValue(SegmentAt(s, i)) # <<>>}

\* each key maps to the value of the last segment that gives it
RuleBaggage(s) ==
    [key \in {RuleKey(SegmentAt(s, i)) : i \in PairStarts(s)} |->
        RuleValue(SegmentAt(s, Greatest({i \in PairStarts(s) : RuleKey(SegmentAt(s, i)) = key})))]

(***************************************************************************)
(* What the claims speak of.                                               *)
(***************************************************************************)
\* the chunks the last end_span call put on the stream
Appended == SubSeq(stderr, last.mark + 1, Len(stderr))

\* the places of the complete span-record lines of a span on the stream
RecordLines(span_id) ==
    {i \in DOMAIN stderr :
        /\ stderr[i].kind = "trace"
        /\ stderr[i].json # <<>>
        /\ stderr[i].span_id = span_id
        /\ i < Len(stderr)
        /\ stderr[i + 1].kind = "nl"}

\* the attributes of a span as they are now
AttributesOf(sref) == dictHeap[spanHeap[sref].attributes]

\* the mapping the caller passed to the last start_span call
GivenAttributes == IF last.given = <<>> THEN EmptyDict ELSE last.given[1]

\* the context's value for one of the two injected keys
ContextValue(key) == IF key = "tenant_id" THEN tenant_id ELSE org_id

(***************************************************************************)
(* C1: end_span returns normally to its caller however the export fails:   *)
(* no call of end_span ends with an exception leaving it.                  *)
(***************************************************************************)
C1_EndNeverRaises == last.op = "end" => last.raised = NoError

(***************************************************************************)
(* C2: the stream holds at most one span-record line for each span id,     *)
(* whatever start and end calls were made.                                 *)
(***************************************************************************)
C2_NoDoubleExport ==
    \A sref \in DOMAIN spanHeap : Cardinality(RecordLines(spanHeap[sref].span_id)) <= 1

C4_TraceIdNonEmpty ==
    constructed =>
        /\ trace_id # ""
        /\ \A sref \in DOMAIN spanHeap : spanHeap[sref].trace_id # ""

(***************************************************************************)
(* C5: every with-block of trace_span called start once on entry; when it  *)
(* has been left, end was called once in leaving it, with status ok when   *)
(* the block ended normally and error when it raised, and that call was    *)
(* made before the exception reached the caller.                           *)
(***************************************************************************)
C5_ScopedStartEndOnce ==
    /\ \A i \in DOMAIN stack : stack[i].startCalls = 1
    /\ lastScope.ts # None =>
        /\ lastScope.startCalls = 1
        /\ lastScope.endCalls = 1
        /\ lastScope.status = IF lastScope.raised = NoError THEN "ok" ELSE "error"
        /\ spanHeap[lastScope.ended].end_time # None

\* a block raised: end was called once, with status error, and the error
\* is on its way to the caller
C5_Witness ==
    /\ lastScope.ts # None
    /\ lastScope.raised = AppError
    /\ lastScope.observed = AppError
    /\ lastScope.endCalls = 1
    /\ lastScope.status = "error"
    /\ last.op = "end"
    /\ last.status = "error"
    /\ spanHeap[lastScope.ended].status = "error"

(***************************************************************************)
(* C6: when the block of a scoped span raises the application error E, the *)
(* caller of the block observes E itself, whether the export succeeds or   *)
(* fails.                                                                  *)
(***************************************************************************)
C6_ErrorUnaltered ==
    (lastScope.ts # None /\ lastScope.raised = AppError) => lastScope.observed = AppError

(***************************************************************************)
(* C7: an end call on a span with an attribute value that cannot be        *)
(* encoded puts no span-record chunk on the stream, not even a partial     *)
(* one, and, the stream taking writes, exactly one diagnostic line.        *)
(***************************************************************************)
C7_UnencodableGivesDiagnostic ==
    (last.op = "end" /\ last.unencodable) =>
        /\ \A i \in DOMAIN Appended : Appended[i].kind # "trace"
        /\ Cardinality({i \in DOMAIN Appended : Appended[i].kind = "diag"}) <= 1
        /\ last.stream # "closed" =>
              /\ Len(Appended) = 2
              /\ Appended[1].kind = "diag"
              /\ Appended[2].kind = "nl"

C7_Witness ==
    /\ last.op = "end"
    /\ last.unencodable
    /\ last.stream = "up"
    /\ last.raised = NoError
    /\ Len(Appended) = 2
    /\ Appended[1].kind = "diag"
    /\ Appended[1].msg = "TypeError"

(***************************************************************************)
(* C8: once end has set a span's end_time and status, no later step        *)
(* changes that span's end_time or status.                                 *)
(***************************************************************************)
C8_FinalizedImmutable ==
    [][\A sref \in DOMAIN spanHeap :
          spanHeap[sref].end_time # None =>
              /\ spanHeap'[sref].end_time = spanHeap[sref].end_time
              /\ spanHeap'[sref].status = spanHeap[sref].status]_vars

(***************************************************************************)
(* C9: for every baggage string the parsed baggage is what the rule gives: *)
(* split on ",", trim, drop segments without "=", split on the first "=",  *)
(* trim key and value, drop pairs with an empty side, later keys overwrite *)
(* earlier ones.                                                           *)
(***************************************************************************)
C9_BaggageFollowsRule ==
    constructed => baggage = RuleBaggage(EnvGet(env.baggage, <<>>))

\* "a=1,bad,,c=3" gives {a: "1", c: "3"}
C9_Witness ==
    /\ constructed
    /\ env.baggage.val = <<"a", "=", "1", ",", "b", "a", "d", ",", ",", "c", "=", "3">>
    /\ DOMAIN baggage = {<<"a">>, <<"c">>}
    /\ baggage[<<"a">>] = <<"1">>
    /\ baggage[<<"c">>] = <<"3">>

(***************************************************************************)
(* C10: every span's parent_id is the context's parent span id when that   *)
(* is non-empty and the trace id otherwise, also for a span started inside *)
(* open with-blocks; it is never the span id of a span of this tracer.     *)
(***************************************************************************)
C10_ParentIsContextParent ==
    \A sref \in DOMAIN spanHeap :
        /\ spanHeap[sref].parent_id =
              IF parent_span_id # "" THEN parent_span_id ELSE trace_id
        /\ \A other \in DOMAIN spanHeap : spanHeap[sref].parent_id # spanHeap[other].span_id

\* a span started inside an open with-block, in a context without a parent
C10_Witness ==
    /\ Len(stack) = 2
    /\ parent_span_id = ""
    /\ trace_id # ""
    /\ spanHeap[stack[2].started].parent_id = trace_id
    /\ spanHeap[stack[2].started].start_time > spanHeap[stack[1].started].start_time

(***************************************************************************)
(* C11: every span-record line on the stream carries a status that is one  *)
(* of ok, error, unset, for every string passed as the status to end.      *)
(***************************************************************************)
C11_RecordStatusValid ==
    \A i \in DOMAIN stderr :
        (stderr[i].kind = "trace" /\ stderr[i].json # <<>>) =>
            stderr[i].json[1].status \in {"ok", "error", "unset"}

(***************************************************************************)
(* C12: a record of a span is on the stream only if end was called on that *)
(* span; every record carries an end_time; a span that was started and     *)
(* never ended has no record.                                              *)
(***************************************************************************)
C12_OnlyClosedExported ==
    /\ \A i \in DOMAIN stderr :
          stderr[i].kind = "trace" =>
              /\ stderr[i].json # <<>>
              /\ stderr[i].json[1].end_time # None
              /\ \E sref \in DOMAIN spanHeap :
                    /\ spanHeap[sref].span_id = stderr[i].span_id
                    /\ spanHeap[sref].end_time # None
    /\ \A sref \in DOMAIN spanHeap :
          spanHeap[sref].end_time = None => RecordLines(spanHeap[sref].span_id) = {}

\* two spans were started and the second one ended: the stream holds the
\* record of the second and nothing of the first
C12_Witness ==
    /\ Len(spanHeap) = 2
    /\ spanHeap[1].end_time = None
    /\ spanHeap[2].end_time # None
    /\ RecordLines(spanHeap[2].span_id) # {}
    /\ \A i \in DOMAIN stderr : stderr[i].span_id # spanHeap[1].span_id

(***************************************************************************)
(* What a JSON reader makes of a record.                                   *)
(***************************************************************************)
RECURSIVE JsonUnescape(_)
\* the string a JSON string's text stands for: a backslash gives the
\* character after it
JsonUnescape(t) ==
    IF t = <<>> THEN <<>>
    ELSE IF Head(t) = "\\" /\ Len(t) > 1
    THEN <<t[2]>> \o JsonUnescape(Tail(Tail(t)))
    ELSE <<Head(t)>> \o JsonUnescape(Tail(t))

\* the attribute mapping a record's "attributes" object stands for
DecodedAttributes(json) ==
    [k \in DOMAIN json.attributes |-> StrVal(JsonUnescape(json.attributes[k].s))]

\* an export that succeeded: the span was encoded and the stream took it
ExportSucceeded == last.op = "end" /\ ~last.unencodable /\ last.stream = "up"

C14_FlushNoOp ==
    [][Flush =>
          /\ UNCHANGED <<tracerVars, spans, spanHeap, dictHeap, stderr>>
          /\ pending' = NoError]_vars

\* flush is called with an open span and an ended one in the log and the
\* ended one's record on the stream
C14_Witness ==
    /\ ENABLED Flush
    /\ Len(spans) = 2
    /\ spanHeap[spans[1]].end_time # None
    /\ spanHeap[spans[2]].end_time = None
    /\ RecordLines(spanHeap[spans[1]].span_id) # {}

(***************************************************************************)
(* C15: start clones the attributes it is given: the caller's mapping is   *)
(* as the caller passed it (no tenant_id or org_id added), the span's      *)
(* attributes are a mapping of their own, and no two spans, such as two    *)
(* started from one mapping or by one trace_span object entered twice,     *)
(* have one mapping between them.                                          *)
(***************************************************************************)
C15_StartClones ==
    /\ (last.op = "start" /\ last.given # <<>>) =>
          /\ dictHeap[last.dref] = last.given[1]
          /\ spanHeap[last.span].attributes # last.dref
    /\ \A s, t \in DOMAIN spanHeap :
          s # t => spanHeap[s].attributes # spanHeap[t].attributes

(***************************************************************************)
(* C17: the span log holds exactly the spans that start calls returned,    *)
(* each once, in the order of the calls; end and flush neither add to it,  *)
(* take from it nor reorder it, so an ended span stays in it.              *)
(***************************************************************************)
C17_LogIsStartsInOrder ==
    /\ Len(spans) = calls.start
    /\ Len(spanHeap) = calls.start
    /\ \A i \in DOMAIN spans : spans[i] = i
    /\ \A i, j \in DOMAIN spans :
          i < j => spanHeap[spans[i]].start_time < spanHeap[spans[j]].start_time

\* two spans were started and both ended, the first one last: the log
\* holds the two in the order of their start
C17_Witness ==
    /\ calls.start = 2
    /\ calls.end = 2
    /\ last.op = "end"
    /\ last.span = 1
    /\ spans = <<1, 2>>
    /\ spanHeap[1].end_time > spanHeap[2].end_time
    /\ spanHeap[2].end_time # None

(***************************************************************************)
(* C18: when a call of end returns, the record of its span, or the         *)
(* diagnostic line, is on the stream already; the records are on the       *)
(* stream in the order of the end calls; and the record of a span of an    *)
(* inner with-block comes before the record that the exit of the enclosing *)
(* with-block writes.                                                      *)
(***************************************************************************)
C18_ExportSynchronousOrdered ==
    /\ (last.op = "end" /\ last.raised = NoError) =>
          /\ Appended # <<>>
          /\ Appended[Len(Appended)] = Newline
          /\ \/ /\ Appended[1].kind = "trace"
                /\ Appended[1].json # <<>>
                /\ Appended[1].span_id = spanHeap[last.span].span_id
                /\ Appended[1].json[1].end_time = spanHeap[last.span].end_time
             \/ Appended[1].kind = "diag"
    /\ \A i, j \in DOMAIN stderr :
          (/\ i < j
           /\ stderr[i].kind = "trace" /\ stderr[i].json # <<>>
           /\ stderr[j].kind = "trace" /\ stderr[j].json # <<>>) =>
              stderr[i].json[1].end_time < stderr[j].json[1].end_time
    /\ (lastScope.ts # None /\ last.op = "end" /\ last.mark = lastScope.mark) =>
          \A s \in DOMAIN spanHeap :
              (/\ s # lastScope.ended
               /\ spanHeap[s].start_time > spanHeap[lastScope.started].start_time) =>
                  \A i \in RecordLines(spanHeap[s].span_id),
                     j \in RecordLines(spanHeap[lastScope.ended].span_id) :
                      j > lastScope.mark => i < j

\* two nested with-blocks were left: the stream holds the record of the
\* inner span and after it the record of the outer one
C18_Witness ==
    /\ stack = <<>>
    /\ Len(spanHeap) = 2
    /\ lastScope.ts # None
    /\ lastScope.started = 1
    /\ lastScope.ended = 1
    /\ last.op = "end"
    /\ last.raised = NoError
    /\ Len(stderr) = 4
    /\ RecordLines(spanHeap[2].span_id) = {1}
    /\ RecordLines(spanHeap[1].span_id) = {3}

\* an export that failed: the span cannot be encoded, or the stream fails
ExportFailed == last.op = "end" /\ (last.unencodable \/ last.stream # "up")

\* the span of the last end call is finalised with the status passed and
\* is in the span log, and the context is as it was loaded
FinalizedInLog ==
    /\ spanHeap[last.span].end_time # None
    /\ spanHeap[last.span].end_time = clock
    /\ spanHeap[last.span].status = last.status
    /\ \E i \in DOMAIN spans : spans[i] = last.span
    /\ trace_id = InitTraceId(env, Uuid(1))
    /\ parent_span_id = InitParentSpanId(env)
    /\ baggage = InitBaggage(env)
    /\ tenant_id = DictGet(baggage, TenantKey, <<>>)
    /\ org_id = DictGet(baggage, OrgKey, <<>>)

LinesWhole ==
    \A i \in DOMAIN stderr :
        (stderr[i].kind = "trace" /\ i < Len(stderr)) => stderr[i + 1] = Newline

\* the log holds the spans in the order in which they were made
LogInStartOrder ==
    \A i, j \in DOMAIN spans :
        i < j => spanHeap[spans[i]].start_time < spanHeap[spans[j]].start_time

\* the records are on the stream in the order in which the spans were ended
RecordsInEndOrder ==
    \A i, j \in DOMAIN stderr :
        (i < j /\ stderr[i].kind = "trace" /\ stderr[j].kind = "trace") =>
            stderr[i].json[1].end_time < stderr[j].json[1].end_time

(***************************************************************************)
(* C16: with a tracer for each thread, whatever the interleaving of two    *)
(* threads that end spans, the stream is a sequence of whole lines: the    *)
(* text of a record is followed by its own newline and by nothing of the   *)
(* other thread.                                                           *)
(***************************************************************************)
C16_PerThreadTracerLinesWhole ==
    (threads.pc # NoThreads.pc /\ ~threads.shared) => LinesWhole

(***************************************************************************)
(* C19: with one tracer used by two threads, a span log or a stream that   *)
(* does not have the shape every sequential order of the calls gives (log  *)
(* in start order, whole lines, records in end order) is reached, and only *)
(* by runs in which calls of the two threads overlap.                      *)
(***************************************************************************)
C19_RaceOnlyWhenCallsOverlap ==
    (threads.shared /\ ~(LinesWhole /\ LogInStartOrder /\ RecordsInEndOrder)) =>
        threads.overlap

\* both threads are through with the shared tracer: each span is in the
\* log once, the span made first is last in the log, and the two texts
\* stand before the two newlines
C19_Witness ==
    /\ threads.shared
    /\ threads.pc = <<"done", "done">>
    /\ threads.overlap
    /\ Len(spans) = 2
    /\ spans[1] # spans[2]
    /\ ~LogInStartOrder
    /\ ~LinesWhole

====
